---------------------------- MODULE Spec2Model ----------------------------
(***************************************************************************)
(* Model of the YouTube comment analysis pipeline                          *)
(* (fetch -> preprocess -> classify -> summarize -> respond).              *)
(*                                                                         *)
(* Texts are sequences of one-character strings; a character outside ASCII *)
(* is written by its code point ("U+1F600").  Comments are records whose   *)
(* set of fields grows from stage to stage, like the Python dicts.         *)
(* Scores are integers on the scale 0..ScoreScale (ScoreScale is 1.0).     *)
(***************************************************************************)
EXTENDS Integers, Sequences, FiniteSets, TLC

VARIABLES
    pc,                     \* position of the operation under way
    video_url,              \* app.py: the video reference typed by the user
    youtube_api_key,        \* app.py: credential of the structured API
    groq_api_key,           \* app.py: credential of the LLM provider
    max_comments,           \* app.py: max_results handed to fetch_comments
    apply_lemmatization,    \* app.py: the lemmatization checkbox
    extracted_id,           \* fetch_comments: video_id, <<>> for None
    comments,               \* the records accumulated / returned by the fetcher
    request,                \* fetch_comments_api: the pending request {maxResults, pageToken}
    pages,                  \* fetch_comments_api: page requests executed, counted up to MaxPages
    processed_comments,     \* result of preprocess_comments + truncate_long_comments
    analyzed_comments,      \* result of analyze_sentiment
    summary,                \* result of generate_summary
    comments_with_responses,\* result of generate_comment_responses
    analysis_results,       \* st.session_state.analysis_results (the stored report)
    model_cache,            \* st.cache_resource of load_sentiment_model
    loads,                  \* executions of load_sentiment_model in this process
    errors,                 \* number of st.error messages shown in this run
    calls,                  \* providers and stages invoked, in order
    raised,                 \* stages whose call ended in an exception
    batches,                \* batches handed to the sentiment pipeline: [texts, failed]
    faults,                 \* provider calls that failed in this run
    prediction,             \* one raw prediction {label, score} of the sentiment model
    labelled                \* the classifier's result for `prediction`

vars == <<pc, video_url, youtube_api_key, groq_api_key, max_comments,
          apply_lemmatization, extracted_id, comments, request, pages,
          processed_comments,
          analyzed_comments, summary, comments_with_responses, analysis_results,
          model_cache, loads, errors, calls, raised, batches, faults,
          prediction, labelled>>

\* what the user entered
inputs == <<video_url, youtube_api_key, groq_api_key, max_comments,
            apply_lemmatization>>

\* what the stages after the fetcher produce
later == <<processed_comments, analyzed_comments, summary,
           comments_with_responses, analysis_results, model_cache, loads,
           raised, batches>>

\* the state of the single-prediction check of the label mapping
unit == <<prediction, labelled>>

(***************************************************************************)
(* Bounds of the model                                                     *)
(***************************************************************************)
MaxCount == 2

MaxPages == 3

MaxRecords == 3

MaxFullBatches == 2

MaxExtra == 1

Grain == 2

MaxRuns == 2

MaxIdLen == 2

ScoreScale == 10 * Grain

None == "None"

(***************************************************************************)
(* Python helpers                                                          *)
(***************************************************************************)
Min2(a, b) == IF a < b THEN a ELSE b

MinOf(S) == CHOOSE x \in S : \A y \in S : x <= y

MaxOf(S) == CHOOSE x \in S : \A y \in S : x >= y

\* the elements of a finite set of integers, ascending
SortedSeq(S) ==
    [k \in 1..Cardinality(S) |->
        CHOOSE x \in S : Cardinality({y \in S : y < x}) = k - 1]

\* dict.get(key, default)
Get(c, k, d) == IF k \in DOMAIN c THEN c[k] ELSE d

\* dict[key] = value on a copy
Put(c, k, v) == [x \in (DOMAIN c) \cup {k} |-> IF x = k THEN v ELSE c[x]]

\* s[:n]
Prefix(s, n) == SubSeq(s, 1, Min2(n, Len(s)))

\* s occurs in text at position i
HasAt(text, i, s) ==
    /\ i >= 1
    /\ i + Len(s) - 1 <= Len(text)
    /\ \A k \in 1..Len(s) : text[i + k - 1] = s[k]

UpperLetters ==
    <<"A", "B", "C", "D", "E", "F", "G", "H", "I", "J", "K", "L", "M",
      "N", "O", "P", "Q", "R", "S", "T", "U", "V", "W", "X", "Y", "Z">>

LowerLetters ==
    <<"a", "b", "c", "d", "e", "f", "g", "h", "i", "j", "k", "l", "m",
      "n", "o", "p", "q", "r", "s", "t", "u", "v", "w", "x", "y", "z">>

Digits == {"0", "1", "2", "3", "4", "5", "6", "7", "8", "9"}

Letters == {UpperLetters[i] : i \in 1..26} \cup {LowerLetters[i] : i \in 1..26}

\* \s
IsSpace(c) == c \in {" ", "\n", "\t"}

\* \w
IsWord(c) == c \in Letters \cup Digits \cup {"_"}

\* str.lower() on one character
LowerChar(c) ==
    IF \E i \in 1..26 : UpperLetters[i] = c
    THEN LowerLetters[CHOOSE i \in 1..26 : UpperLetters[i] = c]
    ELSE c

\* str.lower()
Lower(s) == [i \in 1..Len(s) |-> LowerChar(s[i])]

\* str.strip()
Strip(s) ==
    LET n == Len(s)
        \* the first and the last character that is no whitespace
        first == CHOOSE i \in 1..(n + 1) :
                    /\ i = n + 1 \/ ~IsSpace(s[i])
                    /\ \A j \in 1..(i - 1) : IsSpace(s[j])
        last == CHOOSE i \in 0..n :
                    /\ i = 0 \/ ~IsSpace(s[i])
                    /\ \A j \in (i + 1)..n : IsSpace(s[j])
    IN  SubSeq(s, first, last)

\* str.split(): the maximal runs of non-whitespace characters
Split(s) ==
    LET starts == {i \in 1..Len(s) :
                      ~IsSpace(s[i]) /\ (i = 1 \/ IsSpace(s[i - 1]))}
        EndOf(i) == MinOf({j \in i..Len(s) :
                      j = Len(s) \/ IsSpace(s[j + 1])})
        ord == SortedSeq(starts)
    IN  [k \in 1..Len(ord) |-> SubSeq(s, ord[k], EndOf(ord[k]))]

RECURSIVE Join(_)
\* ' '.join(words)
Join(words) ==
    IF Len(words) = 0 THEN <<>>
    ELSE IF Len(words) = 1 THEN words[1]
    ELSE words[1] \o <<" ">> \o Join(Tail(words))

(***************************************************************************)
(* preprocess.py                                                           *)
(***************************************************************************)
S_http == <<"h", "t", "t", "p">>

S_scheme_end == <<":", "/", "/">>

\* the characters of [$-_@.&+] and [!*$,] that are neither letters nor digits
UrlPunct ==
    {"$", "%", "&", "'", "(", ")", "*", "+", ",", "-", ".", "/", ":", ";",
     "<", "=", ">", "?", "@", "[", "\\", "]", "^", "_", "!"}

UrlChar(c) == c \in Letters \cup Digits \cup UrlPunct

\* last position of the match of the URL pattern starting at i, 0 if none
UrlMatchEnd(text, i) ==
    LET j == i + 4
        start == IF HasAt(text, i, S_http)
                 THEN IF HasAt(text, j, <<"s">>) /\ HasAt(text, j + 1, S_scheme_end)
                      THEN j + 4
                      ELSE IF HasAt(text, j, S_scheme_end) THEN j + 3 ELSE 0
                 ELSE 0
        stops == {k \in start..Len(text) : ~UrlChar(text[k])}
        last == IF stops = {} THEN Len(text) ELSE MinOf(stops) - 1
    IN  IF start = 0 \/ start > Len(text) \/ last < start THEN 0 ELSE last

RECURSIVE RemoveUrlsFrom(_, _)
RemoveUrlsFrom(text, i) ==
    IF i > Len(text) THEN <<>>
    ELSE LET e == UrlMatchEnd(text, i)
         IN  IF e > 0 THEN RemoveUrlsFrom(text, e + 1)
             ELSE <<text[i]>> \o RemoveUrlsFrom(text, i + 1)

remove_urls(text) == RemoveUrlsFrom(text, 1)

\* last position of the match of <.*?> starting at i, 0 if none
TagMatchEnd(text, i) ==
    LET closes == {j \in (i + 1)..Len(text) :
                      /\ text[j] = ">"
                      /\ \A k \in (i + 1)..(j - 1) : text[k] # "\n"}
    IN  IF text[i] = "<" /\ closes # {} THEN MinOf(closes) ELSE 0

RECURSIVE RemoveTagsFrom(_, _)
RemoveTagsFrom(text, i) ==
    IF i > Len(text) THEN <<>>
    ELSE LET e == TagMatchEnd(text, i)
         IN  IF e > 0 THEN RemoveTagsFrom(text, e + 1)
             ELSE <<text[i]>> \o RemoveTagsFrom(text, i + 1)

remove_html_tags(text) == RemoveTagsFrom(text, 1)

\* code points of the emoji ranges that the modelled texts use
EmojiChars == {"U+1F600", "U+1F64F", "U+1F680", "U+2764", "U+4E2D"}

remove_emojis(text) == SelectSeq(text, LAMBDA c : c \notin EmojiChars)

KeptPunct == {".", ",", "!", "?", "-"}

remove_special_characters(text) ==
    LET kept == SelectSeq(text,
                    LAMBDA c : IsWord(c) \/ IsSpace(c) \/ c \in KeptPunct)
        firsts == {i \in 1..Len(kept) :
                      ~IsSpace(kept[i]) \/ i = 1 \/ ~IsSpace(kept[i - 1])}
        ord == SortedSeq(firsts)
        collapsed == [k \in 1..Len(ord) |->
                         IF IsSpace(kept[ord[k]]) THEN " " ELSE kept[ord[k]]]
    IN  Strip(collapsed)

\* entries of nltk's stopword lists that the modelled texts use
StopWordsOf(lang) ==
    IF lang = "english"
    THEN {<<"t", "h", "e">>, <<"t", "h", "i", "s">>, <<"i", "s">>,
          <<"a">>, <<"i">>, <<"w", "a", "s">>, <<"s", "o">>}
    ELSE {<<"l", "e">>, <<"l", "a">>, <<"e", "t">>, <<"s", "o", "n">>}

Languages == {"english", "french"}

\* nltk: the set of corpora that load ("english", "french", "wordnet")
remove_stopwords_text(text, nltk) ==
    LET stop_words == UNION {StopWordsOf(lang) : lang \in Languages \cap nltk}
        words == Split(text)
        filtered_words == SelectSeq(words, LAMBDA w : Lower(w) \notin stop_words)
    IN  Join(filtered_words)

\* WordNetLemmatizer.lemmatize on the words the modelled texts use
Lemma(word) ==
    CASE word = <<"c", "a", "t", "s">> -> <<"c", "a", "t">>
      [] word = <<"v", "i", "d", "e", "o", "s">> -> <<"v", "i", "d", "e", "o">>
      [] word = <<"w", "a", "s">> -> <<"w", "a">>
      [] OTHER -> word

lemmatize_text(text, nltk) ==
    IF "wordnet" \in nltk
    THEN LET words == Split(text)
         IN  Join([k \in 1..Len(words) |-> Lemma(Lower(words[k]))])
    ELSE Lower(text)

preprocess_comment(text, lemmatize, nltk) ==
    IF Len(text) = 0 THEN <<>>
    ELSE LET t1 == remove_urls(text)
             t2 == remove_html_tags(t1)
             t3 == remove_emojis(t2)
             t4 == remove_special_characters(t3)
             t5 == Lower(t4)
             t6 == remove_stopwords_text(t5, nltk)
             t7 == IF lemmatize THEN lemmatize_text(t6, nltk) ELSE t6
         IN  Strip(t7)

\* the loop body of preprocess_comments for one record
preprocess_one(comment, lemmatize, nltk) ==
    LET original_text == Get(comment, "text", <<>>)
        processed_text == preprocess_comment(original_text, lemmatize, nltk)
    IN  Put(Put(comment, "original_text", original_text),
            "processed_text", processed_text)

MinProcessedLen == 3

\* the filter as its comment words it ("at least 3 characters")
keeps_comment_at_least(processed_comment) ==
    Len(Strip(processed_comment["processed_text"])) >= MinProcessedLen

keeps_comment(processed_comment) ==
    Len(Strip(processed_comment["processed_text"])) > MinProcessedLen

preprocess_comments(cs, lemmatize, nltk) ==
    SelectSeq([i \in 1..Len(cs) |-> preprocess_one(cs[i], lemmatize, nltk)],
              keeps_comment)

TruncateLength == 200

S_ellipsis == <<".", ".", ".">>

truncate_field(c, name, max_length) ==
    IF Len(Get(c, name, <<>>)) > max_length
    THEN Put(c, name, Prefix(c[name], max_length) \o S_ellipsis)
    ELSE c

truncate_long_comments(cs, max_length) ==
    [i \in 1..Len(cs) |->
        truncate_field(truncate_field(cs[i], "original_text", max_length),
                       "processed_text", max_length)]

(***************************************************************************)
(* fetch_comments.py                                                       *)
(***************************************************************************)
S_watch_v ==
    <<"y", "o", "u", "t", "u", "b", "e", ".", "c", "o", "m", "/",
      "w", "a", "t", "c", "h", "?", "v", "=">>

S_youtu_be == <<"y", "o", "u", "t", "u", ".", "b", "e", "/">>

S_embed ==
    <<"y", "o", "u", "t", "u", "b", "e", ".", "c", "o", "m", "/",
      "e", "m", "b", "e", "d", "/">>

S_watch_q ==
    <<"y", "o", "u", "t", "u", "b", "e", ".", "c", "o", "m", "/",
      "w", "a", "t", "c", "h", "?">>

S_v_eq == <<"v", "=">>

\* the characters excluded by [^&\n?#]
IdDelimiters == {"&", "\n", "?", "#"}

IsIdChar(url, k) == k >= 1 /\ k <= Len(url) /\ url[k] \notin IdDelimiters

\* a run that ends at "&" only
IdRunToAmpersand(url, k) ==
    LET stops == {m \in k..Len(url) : url[m] = "&"}
    IN  SubSeq(url, k, IF stops = {} THEN Len(url) ELSE MinOf(stops) - 1)

\* ([^&\n?#]+) matched greedily from position k
IdRunFrom(url, k) ==
    LET stops == {m \in k..Len(url) : url[m] \in IdDelimiters}
    IN  SubSeq(url, k, IF stops = {} THEN Len(url) ELSE MinOf(stops) - 1)

\* the alternatives of the first pattern, in order
FirstPatternPrefixes == <<S_watch_v, S_youtu_be, S_embed>>

\* re.search with the first pattern: position after the matched prefix, 0 if none
FirstPatternIdStart(url) ==
    LET At(i) == {n \in 1..Len(FirstPatternPrefixes) :
                    /\ HasAt(url, i, FirstPatternPrefixes[n])
                    /\ IsIdChar(url, i + Len(FirstPatternPrefixes[n]))}
        hits == {i \in 1..Len(url) : At(i) # {}}
    IN  IF hits = {} THEN 0
        ELSE MinOf(hits) + Len(FirstPatternPrefixes[MinOf(At(MinOf(hits)))])

\* re.search with the second pattern: position after the last usable "v=", 0 if none
SecondPatternIdStart(url) ==
    LET VAt(i) == {m \in (i + Len(S_watch_q))..Len(url) :
                     /\ HasAt(url, m, S_v_eq)
                     /\ IsIdChar(url, m + Len(S_v_eq))
                     /\ \A k \in (i + Len(S_watch_q))..(m - 1) : url[k] # "\n"}
        hits == {i \in 1..Len(url) : HasAt(url, i, S_watch_q) /\ VAt(i) # {}}
    IN  IF hits = {} THEN 0 ELSE MaxOf(VAt(MinOf(hits))) + Len(S_v_eq)

\* the identifier, or <<>> for Python's None (a matched identifier is never empty)
extract_video_id(url) ==
    IF FirstPatternIdStart(url) # 0 THEN IdRunFrom(url, FirstPatternIdStart(url))
    ELSE IF SecondPatternIdStart(url) # 0 THEN IdRunFrom(url, SecondPatternIdStart(url))
    ELSE <<>>

\* a credential test that forgets strip()
HasCredentialUnstripped(key) == Len(key) > 0

\* `api_key and api_key.strip()`; an absent credential is the empty string
HasCredential(key) == Len(key) > 0 /\ Len(Strip(key)) > 0

PageSizeLimit == 100

\* texts of the comments the providers serve
RawTexts ==
    << <<"G", "r", "e", "a", "t", " ", "v", "i", "d", "e", "o", ",", " ",
         "t", "h", "a", "n", "k", "s", "!">>,
       <<"o", "k">>,
       <<"T", "h", "i", "s", " ", "i", "s", " ", "b", "a", "d", "!", "!">>,
       <<"c", "a", "t", "s">>,
       <<"h", "t", "t", "p", ":", "/", "/", "a", ".", "b", "/", "c", " ",
         "<", "b", ">", "h", "i", "<", "/", "b", ">", " ", "U+1F600">>,
       <<"t", "h", "e", " ", "c", "a", "t">>,
       <<>> >>

Authors == << <<"A", "n", "n">>, <<"B", "o">>,
              <<"M", "a", "x", "i", "m", "i", "l", "i", "a", "n">> >>

\* the i-th comment thread of the video, as the structured API serves it
ApiSnippet(video_id, i) ==
    LET n == Len(video_id) + i
    IN  [textDisplay |-> RawTexts[(n % Len(RawTexts)) + 1],
         authorDisplayName |-> Authors[(n % Len(Authors)) + 1],
         likeCount |-> n % 3,
         publishedAt |-> "2024-01-01T00:00:00Z"]

\* the i-th comment of the video, as the scraper yields it
ScraperComment(video_id, i) ==
    LET n == Len(video_id) + i + 2
        full == [text |-> RawTexts[(n % Len(RawTexts)) + 1],
                 author |-> Authors[(n % Len(Authors)) + 1],
                 votes |-> n % 3,
                 time |-> "1 day ago"]
    IN  IF n % 4 = 0 THEN [text |-> full.text] ELSE full

\* the record appended by fetch_comments_api for one item
ApiRecord(snippet) ==
    [text |-> snippet.textDisplay,
     author |-> snippet.authorDisplayName,
     likes |-> snippet.likeCount,
     published |-> snippet.publishedAt]

\* the record appended by fetch_comments_downloader for one comment
ScraperRecord(comment) ==
    [text |-> Get(comment, "text", <<>>),
     author |-> Get(comment, "author", <<"U", "n", "k", "n", "o", "w", "n">>),
     likes |-> Get(comment, "votes", 0),
     published |-> Get(comment, "time", "")]

\* comments after the items of one page are appended (the page holds k items)
AppendPage(acc, video_id, k) ==
    acc \o [i \in 1..k |-> ApiRecord(ApiSnippet(video_id, Len(acc) + i))]

\* a page request that forgets the records already held
PageRequestWhole(max_results, have) == Min2(max_results, PageSizeLimit)

\* maxResults of a page request for the remaining records
PageRequest(max_results, have) == Min2(max_results - have, PageSizeLimit)

\* no request is pending
NoRequest == [maxResults |-> 0, pageToken |-> ""]

\* the nextPageToken of a response; "" when the response has none
PageTokens == {"", "CAE", "CAI"}

\* how many items a page may hold: none, one, one short of the request, all
PageFills(requested) == {0, 1, requested - 1, requested} \cap (0..requested)

\* the pagination test after a page: request another page?
WantsNextPage(has_token, have, max_results) == has_token /\ have < max_results

\* the list built by fetch_comments_downloader from a stream of n comments
ScrapeStream(video_id, n, max_results) ==
    [i \in 1..Min2(n, max_results) |-> ScraperRecord(ScraperComment(video_id, i))]

\* fetch_comments up to the choice of the provider
FetchBegin ==
    /\ pc = "fetch"
    /\ IF extract_video_id(video_url) = <<>>
       THEN /\ errors' = errors + 1
            /\ pc' = "fetched"
            /\ UNCHANGED <<request, calls>>
       ELSE IF HasCredential(youtube_api_key)
       THEN /\ pc' = "api"
            /\ request' = [maxResults |-> Min2(max_comments, PageSizeLimit),
                           pageToken |-> ""]
            /\ calls' = Append(calls, "api")
            /\ UNCHANGED errors
       ELSE /\ pc' = "scraper"
            /\ UNCHANGED <<request, calls, errors>>
    /\ extracted_id' = extract_video_id(video_url)
    /\ comments' = <<>>
    /\ UNCHANGED <<inputs, later, unit, pages, faults>>

\* what fetch_comments does with the list fetch_comments_api returned
ApiReturn(result) ==
    /\ comments' = result
    /\ request' = NoRequest
    /\ calls' = Append(calls, IF Len(result) > 0 THEN "api_records" ELSE "api_empty")
    /\ pc' = IF Len(result) > 0 THEN "fetched" ELSE "scraper"

\* one turn of the pagination loop of fetch_comments_api
ApiPage ==
    /\ pc = "api"
    /\ IF request # NoRequest /\ Len(comments) < max_comments
       THEN \E outcome \in {"ok", "error"}, k \in PageFills(request.maxResults),
               nextPageToken \in PageTokens :
              /\ pages' = Min2(pages + 1, MaxPages)
              /\ IF outcome = "error"
                 THEN /\ k = 0 /\ nextPageToken = ""
                      /\ errors' = errors + 1
                      /\ faults' = faults \cup {"api"}
                      /\ ApiReturn(<<>>)
                 ELSE LET got == AppendPage(comments, extracted_id, k)
                      IN  /\ UNCHANGED <<errors, faults>>
                          /\ IF WantsNextPage(nextPageToken # "", Len(got), max_comments)
                             THEN /\ comments' = got
                                  /\ request' =
                                         [maxResults |-> PageRequest(max_comments, Len(got)),
                                          pageToken |-> nextPageToken]
                                  /\ pc' = "api"
                                  /\ UNCHANGED calls
                             ELSE ApiReturn(got)
       ELSE /\ ApiReturn(comments)
            /\ UNCHANGED <<pages, errors, faults>>
    /\ UNCHANGED <<inputs, extracted_id, later, unit>>

\* fetch_comments_downloader on a stream of n comments, or a failing scraper
Scrape ==
    /\ pc = "scraper"
    /\ \E outcome \in {"ok", "error"}, n \in 0..(max_comments + 1) :
          IF outcome = "error"
          THEN /\ n = 0
               /\ errors' = errors + 1
               /\ faults' = faults \cup {"scraper"}
               /\ comments' = <<>>
          ELSE /\ UNCHANGED <<errors, faults>>
               /\ comments' = ScrapeStream(extracted_id, n, max_comments)
    /\ calls' = Append(calls, "scraper")
    /\ pc' = "fetched"
    /\ UNCHANGED <<inputs, extracted_id, later, unit, request, pages>>

(***************************************************************************)
(* sentiment_analysis.py                                                   *)
(***************************************************************************)
MaxAttempts == 3

\* load_sentiment_model when the first `failures` attempts raise:
\* the handle (None after MaxAttempts failures), the st.error messages shown,
\* the delays slept, the attempts made
RECURSIVE LoadAttempt(_, _)
LoadAttempt(attempt, failures) ==
    IF attempt > MaxAttempts
    THEN [model |-> None, errors |-> 0, sleeps |-> <<>>, attempts |-> 0]
    ELSE IF failures < attempt
    THEN [model |-> "pipeline", errors |-> 0, sleeps |-> <<>>, attempts |-> 1]
    ELSE IF attempt < MaxAttempts
    THEN LET rest == LoadAttempt(attempt + 1, failures)
         IN  [model |-> rest.model,
              errors |-> rest.errors + 1,
              sleeps |-> <<2 ^ (attempt - 1)>> \o rest.sleeps,
              attempts |-> rest.attempts + 1]
    ELSE [model |-> None, errors |-> 2, sleeps |-> <<>>, attempts |-> 1]

load_sentiment_model(failures) == LoadAttempt(1, failures)

\* 0.5, 0.6 and 0.4 on the integer scale
Half == 5 * Grain

DefaultPositive == 6 * Grain

DefaultNegative == 4 * Grain

map_sentiment_label(label, score) ==
    IF label = "POSITIVE"
    THEN [positive |-> score, negative |-> ScoreScale - score]
    ELSE IF label = "NEGATIVE"
    THEN [positive |-> ScoreScale - score, negative |-> score]
    ELSE [positive |-> DefaultPositive, negative |-> DefaultNegative]

\* a tag rule that gives a tie to positive
classify_prediction_tie_positive(p) ==
    LET sentiment_scores == map_sentiment_label(p.label, p.score)
    IN  [sentiment |-> IF sentiment_scores.positive >= sentiment_scores.negative
                       THEN "positive" ELSE "negative",
         confidence |-> p.score,
         scores |-> sentiment_scores]

\* the result appended for one prediction of a batch
classify_prediction(p) ==
    LET sentiment_scores == map_sentiment_label(p.label, p.score)
    IN  [sentiment |-> IF sentiment_scores.positive > sentiment_scores.negative
                       THEN "positive" ELSE "negative",
         confidence |-> p.score,
         scores |-> sentiment_scores]

\* the result appended for each text of a failed batch, and for a missing result
DefaultResult ==
    [sentiment |-> "positive",
     confidence |-> Half,
     scores |-> [positive |-> Half, negative |-> Half]]

RawLabels == <<"POSITIVE", "NEGATIVE", "NEUTRAL">>

\* the sentiment model: a deterministic function of the text; `weights`
\* ranges over the models considered
Predict(weights, text) ==
    LET h == Len(text) + weights
    IN  [label |-> RawLabels[(h % Len(RawLabels)) + 1],
         score |-> (7 * h + 3 * weights) % (ScoreScale + 1)]

BatchSize == 32

\* number of the batch that holds text i
BatchOf(i) == ((i - 1) \div BatchSize) + 1

NumBatches(n) == (n + BatchSize - 1) \div BatchSize

\* the loop of classify_sentiment_batch from text i on: the results appended and
\* the batches handed to the model (`failing`: the batches whose call raises)
RECURSIVE ClassifyFrom(_, _, _, _)
ClassifyFrom(texts, i, weights, failing) ==
    IF i > Len(texts) THEN [results |-> <<>>, batches |-> <<>>]
    ELSE LET batch_texts == SubSeq(texts, i, Min2(i + BatchSize - 1, Len(texts)))
             failed == BatchOf(i) \in failing
             rest == ClassifyFrom(texts, i + BatchSize, weights, failing)
             out == IF failed
                    THEN [k \in 1..Len(batch_texts) |-> DefaultResult]
                    ELSE [k \in 1..Len(batch_texts) |->
                             classify_prediction(Predict(weights, batch_texts[k]))]
         IN  [results |-> out \o rest.results,
              batches |-> <<[texts |-> batch_texts, failed |-> failed]>> \o rest.batches]

\* a loop that gives up at the first batch whose call raises
classify_sentiment_batch_aborting(texts, sentiment_pipeline, weights, failing) ==
    LET bad == {i \in 1..Len(texts) : BatchOf(i) \in failing}
        upto == IF bad = {} THEN Len(texts) ELSE MinOf(bad) - 1
    IN  IF sentiment_pipeline = None THEN [results |-> <<>>, batches |-> <<>>]
        ELSE ClassifyFrom(SubSeq(texts, 1, upto), 1, weights, {})

classify_sentiment_batch(texts, sentiment_pipeline, weights, failing) ==
    IF sentiment_pipeline = None THEN [results |-> <<>>, batches |-> <<>>]
    ELSE ClassifyFrom(texts, 1, weights, failing)

MaxTextLen == 512

S_okay_comment == <<"o", "k", "a", "y", " ", "c", "o", "m", "m", "e", "n", "t">>

\* the text analyze_sentiment hands to the classifier for one comment
text_to_analyze(comment) ==
    LET text == Get(comment, "processed_text", Get(comment, "original_text", <<>>))
    IN  IF Len(text) > 0 /\ Len(Strip(text)) > 0
        THEN IF Len(text) > MaxTextLen THEN Prefix(text, MaxTextLen) ELSE text
        ELSE S_okay_comment

RECURSIVE texts_to_analyze(_)
\* the list texts_to_analyze built by the first loop of analyze_sentiment
texts_to_analyze(cs) ==
    IF Len(cs) = 0 THEN <<>>
    ELSE <<text_to_analyze(Head(cs))>> \o texts_to_analyze(Tail(cs))

\* comment.copy() followed by update(result)
with_result(comment, result) ==
    Put(Put(Put(comment, "sentiment", result.sentiment),
            "confidence", result.confidence),
        "scores", result.scores)

\* analyze_sentiment with the handle that load_sentiment_model returned:
\* value: the list returned; same_list: it is the list that was passed in
analyze_sentiment(cs, sentiment_pipeline, weights, failing) ==
    IF Len(cs) = 0
    THEN [value |-> <<>>, same_list |-> FALSE, batches |-> <<>>, errors |-> 0]
    ELSE IF sentiment_pipeline = None
    THEN [value |-> cs, same_list |-> TRUE, batches |-> <<>>, errors |-> 1]
    ELSE LET texts == texts_to_analyze(cs)
             got == classify_sentiment_batch(texts, sentiment_pipeline, weights, failing)
         IN  [value |-> [i \in 1..Len(cs) |->
                            IF i <= Len(got.results)
                            THEN with_result(cs[i], got.results[i])
                            ELSE with_result(cs[i], DefaultResult)],
              same_list |-> FALSE,
              batches |-> got.batches,
              errors |-> 0]

\* a percentage is the fraction <<numerator, denominator>>
get_sentiment_summary(cs) ==
    IF Len(cs) = 0
    THEN [total_comments |-> 0, positive_count |-> 0, negative_count |-> 0,
          positive_percentage |-> <<0, 1>>, negative_percentage |-> <<0, 1>>]
    ELSE LET count(tag) ==
                 Cardinality({i \in 1..Len(cs) : Get(cs[i], "sentiment", None) = tag})
         IN  [total_comments |-> Len(cs),
              positive_count |-> count("positive"),
              negative_count |-> count("negative"),
              positive_percentage |-> <<count("positive") * 100, Len(cs)>>,
              negative_percentage |-> <<count("negative") * 100, Len(cs)>>]

(***************************************************************************)
(* Python values that are a string or None: [kind |-> "None"], or          *)
(* [kind |-> "str", source, text, empty, ...]; `source` tells who produced *)
(* it and `empty` whether it is the empty string                           *)
(***************************************************************************)
NoneValue == [kind |-> "None"]

Str(source, text) ==
    [kind |-> "str", source |-> source, text |-> text, empty |-> text = ""]

\* the truth value Python gives to a string or None
Truthy(v) == v.kind = "str" /\ ~v.empty

(***************************************************************************)
(* summarizer.py                                                           *)
(***************************************************************************)
GroqCommentLimit == 50

MeaningfulLength == 10

\* summarize_with_groq: is there a comment worth sending among the first 50?
HasMeaningfulComment(cs) ==
    \E i \in 1..Min2(Len(cs), GroqCommentLimit) :
        LET text == Get(cs[i], "original_text", Get(cs[i], "text", <<>>))
        IN  Len(text) > 0 /\ Len(Strip(text)) > MeaningfulLength

\* summarize_with_groq without its except clause
summarize_with_groq_unguarded(cs, llm) ==
    IF ~HasMeaningfulComment(cs)
    THEN [exc |-> FALSE, called |-> FALSE,
          value |-> Str("fixed", "No meaningful comments found to summarize.")]
    ELSE IF llm = "raise"
    THEN [exc |-> TRUE, called |-> TRUE, value |-> NoneValue]
    ELSE [exc |-> FALSE, called |-> TRUE, value |-> Str("llm", "summary by the LLM")]

\* llm: what the chat completion does: "raise", "empty" (blank content) or "text"
summarize_with_groq(cs, llm) ==
    IF ~HasMeaningfulComment(cs)
    THEN [exc |-> FALSE, called |-> FALSE,
          value |-> Str("fixed", "No meaningful comments found to summarize.")]
    ELSE IF llm = "raise"
    THEN [exc |-> FALSE, called |-> TRUE, value |-> NoneValue]
    ELSE IF llm = "empty"
    THEN [exc |-> FALSE, called |-> TRUE, value |-> Str("llm", "")]
    ELSE [exc |-> FALSE, called |-> TRUE, value |-> Str("llm", "summary by the LLM")]

LocalCommentLimit == 30

TopicMinLength == 3

TopicMinCount == 2

TopWordLimit == 10

TopicLimit == 5

SentimentKeys == <<"positive", "negative", "neutral">>

\* the words of the first 30 comments, lowercased
LocalWords(cs) ==
    Split(Lower(Join([i \in 1..Min2(Len(cs), LocalCommentLimit) |->
        Get(cs[i], "processed_text", Get(cs[i], "original_text", <<>>))])))

\* common_topics of summarize_locally
CommonTopics(cs) ==
    LET words == LocalWords(cs)
        count(w) == Cardinality({k \in 1..Len(words) : words[k] = w})
        first(w) == MinOf({k \in 1..Len(words) : words[k] = w})
        long == {k \in 1..Len(words) :
                    Len(words[k]) > TopicMinLength /\ first(words[k]) = k}
        \* sorted by count, descending; the sort is stable
        before(a, b) == \/ count(words[a]) > count(words[b])
                        \/ count(words[a]) = count(words[b]) /\ a < b
        ranked == [r \in 1..Cardinality(long) |->
                     words[CHOOSE a \in long :
                             Cardinality({b \in long : before(b, a)}) = r - 1]]
        top_words == Prefix(ranked, TopWordLimit)
    IN  Prefix(SelectSeq(top_words, LAMBDA w : count(w) > TopicMinCount), TopicLimit)

summarize_locally(cs) ==
    IF Len(cs) = 0
    THEN Str("fixed", "No comments available for summarization.")
    ELSE IF \E i \in 1..Len(cs) :
                \A k \in 1..Len(SentimentKeys) :
                    Get(cs[i], "sentiment", "neutral") # SentimentKeys[k]
    THEN Str("fixed", "Unable to generate summary due to processing error.")
    ELSE LET count(tag) ==
                 Cardinality({i \in 1..Len(cs) : Get(cs[i], "sentiment", "neutral") = tag})
             \* max() keeps the first key with the largest count
             dominant == SentimentKeys[MinOf({k \in 1..3 :
                             \A j \in 1..3 : count(SentimentKeys[k]) >= count(SentimentKeys[j])})]
         IN  [kind |-> "str", source |-> "local", empty |-> FALSE,
              text |-> "Analysis of {total} comments shows a predominantly ...",
              total |-> Len(cs),
              dominant |-> dominant,
              percentage |-> <<count(dominant) * 100, Len(cs)>>,
              topics |-> CommonTopics(cs),
              positive |-> count("positive"),
              negative |-> count("negative"),
              neutral |-> count("neutral")]

generate_summary(cs, key, llm) ==
    IF Len(cs) = 0
    THEN [exc |-> FALSE, called |-> FALSE,
          value |-> Str("fixed", "No comments available for summarization.")]
    ELSE IF HasCredential(key)
    THEN LET groq_summary == summarize_with_groq(cs, llm)
         IN  IF groq_summary.exc THEN groq_summary
             ELSE IF Truthy(groq_summary.value) THEN groq_summary
             ELSE [exc |-> FALSE, called |-> groq_summary.called,
                   value |-> summarize_locally(cs)]
    ELSE [exc |-> FALSE, called |-> FALSE, value |-> summarize_locally(cs)]

(***************************************************************************)
(* comment_responder.py                                                    *)
(***************************************************************************)
PraiseCues ==
    {<<"t", "h", "a", "n", "k">>,
     <<"t", "h", "a", "n", "k", "s">>,
     <<"g", "r", "e", "a", "t">>,
     <<"a", "w", "e", "s", "o", "m", "e">>,
     <<"l", "o", "v", "e">>,
     <<"a", "m", "a", "z", "i", "n", "g">>}

MildPraiseCues ==
    {<<"g", "o", "o", "d">>,
     <<"n", "i", "c", "e">>,
     <<"w", "e", "l", "l", " ", "d", "o", "n", "e">>,
     <<"e", "x", "c", "e", "l", "l", "e", "n", "t">>}

CriticismCues ==
    {<<"b", "a", "d">>,
     <<"t", "e", "r", "r", "i", "b", "l", "e">>,
     <<"h", "a", "t", "e">>,
     <<"w", "o", "r", "s", "t">>}

ClarityCues ==
    {<<"c", "o", "n", "f", "u", "s", "i", "n", "g">>,
     <<"u", "n", "c", "l", "e", "a", "r">>,
     <<"h", "a", "r", "d">>}

\* `word in text`
Contains(text, word) == \E i \in 1..Len(text) : HasAt(text, i, word)

\* any(word in text for word in cues)
AnyCue(text, cues) == \E w \in cues : Contains(text, w)

\* the buckets with the second test of each sentiment made first
ResponseBucketSecondFirst(comment) ==
    LET sentiment == Get(comment, "sentiment", "neutral")
        original_text == Lower(Get(comment, "original_text", <<>>))
    IN  IF sentiment = "positive"
        THEN IF AnyCue(original_text, MildPraiseCues) THEN "secondary_appreciation"
             ELSE IF AnyCue(original_text, PraiseCues) THEN "appreciation"
             ELSE "generic_thanks"
        ELSE IF sentiment = "negative"
        THEN IF AnyCue(original_text, ClarityCues) THEN "clarification"
             ELSE IF AnyCue(original_text, CriticismCues) THEN "apologetic"
             ELSE "generic_acknowledgment"
        ELSE "neutral"

\* the list `responses` that _generate_fallback_response picks from
ResponseBucket(comment) ==
    LET sentiment == Get(comment, "sentiment", "neutral")
        original_text == Lower(Get(comment, "original_text", <<>>))
    IN  IF sentiment = "positive"
        THEN IF AnyCue(original_text, PraiseCues) THEN "appreciation"
             ELSE IF AnyCue(original_text, MildPraiseCues) THEN "secondary_appreciation"
             ELSE "generic_thanks"
        ELSE IF sentiment = "negative"
        THEN IF AnyCue(original_text, CriticismCues) THEN "apologetic"
             ELSE IF AnyCue(original_text, ClarityCues) THEN "clarification"
             ELSE "generic_acknowledgment"
        ELSE "neutral"

\* len() of each template of a bucket, the author's name left out
TemplateLengths(bucket) ==
    CASE bucket = "appreciation" -> <<21, 25, 26, 26>>
      [] bucket = "secondary_appreciation" -> <<13, 27, 23>>
      [] bucket = "generic_thanks" -> <<10, 19, 27>>
      [] bucket = "apologetic" -> <<46, 52, 46>>
      [] bucket = "clarification" -> <<68, 47, 44>>
      [] bucket = "generic_acknowledgment" -> <<27, 31, 37>>
      [] OTHER -> <<23, 24, 25, 18>>

S_there == <<"t", "h", "e", "r", "e">>

\* roll: the number random.choice draws
_generate_fallback_response(comment, roll) ==
    LET author == Get(comment, "author", S_there)
        bucket == ResponseBucket(comment)
        choice == (roll % Len(TemplateLengths(bucket))) + 1
    IN  [kind |-> "str", source |-> "template", empty |-> FALSE,
         bucket |-> bucket, choice |-> choice, author |-> author,
         length |-> TemplateLengths(bucket)[choice] + Len(author)]

\* reply: what the chat completion does: [raise |-> TRUE] or [raise |-> FALSE, content]
_generate_ai_response(comment, reply, roll) ==
    IF reply.raise
    THEN [exc |-> FALSE, failed |-> TRUE,
          value |-> _generate_fallback_response(comment, roll)]
    ELSE [exc |-> FALSE, failed |-> FALSE,
          value |-> [kind |-> "str", source |-> "llm",
                     text |-> Strip(reply.content),
                     empty |-> Len(Strip(reply.content)) = 0,
                     length |-> Len(Strip(reply.content))]]

\* the loop body of generate_comment_responses: the response set on one comment
response_for(comment, key, reply, roll) ==
    IF Len(key) > 0
    THEN LET r == _generate_ai_response(comment, reply, roll)
         IN  IF r.exc
             THEN [exc |-> FALSE, failed |-> TRUE,
                   value |-> _generate_fallback_response(comment, roll)]
             ELSE r
    ELSE [exc |-> FALSE, failed |-> FALSE,
          value |-> _generate_fallback_response(comment, roll)]

\* replies[i], rolls[i]: the LLM's reply and the random draw for comment i;
\* same_list: the list returned is the list passed in, its records updated in place
generate_comment_responses(cs, key, replies, rolls) ==
    IF Len(cs) = 0
    THEN [exc |-> FALSE, failed |-> FALSE, value |-> <<>>, same_list |-> FALSE]
    ELSE LET r == [i \in 1..Len(cs) |-> response_for(cs[i], key, replies[i], rolls[i])]
         IN  [exc |-> \E i \in 1..Len(cs) : r[i].exc,
              failed |-> \E i \in 1..Len(cs) : r[i].failed,
              value |-> [i \in 1..Len(cs) |-> Put(cs[i], "response", r[i].value)],
              same_list |-> TRUE]

AiLengthThreshold == 30

get_response_summary(cs) ==
    IF Len(cs) = 0 THEN <<>>
    ELSE LET answered == {i \in 1..Len(cs) :
                            Truthy(Get(cs[i], "response", NoneValue))}
             total_responses == Cardinality(answered)
             ai_responses == Cardinality({i \in answered :
                                cs[i].response.length > AiLengthThreshold})
         IN  [total_responses |-> total_responses,
              ai_responses |-> ai_responses,
              template_responses |-> total_responses - ai_responses]

(***************************************************************************)
(* The environment: what the user may enter and how the providers behave   *)
(***************************************************************************)
\* "https://www.youtube.com/watch?v=ABC123&t=5"
UrlWatch ==
    <<"h", "t", "t", "p", "s", ":", "/", "/", "w", "w", "w", ".">> \o S_watch_v
    \o <<"A", "B", "C", "1", "2", "3", "&", "t", "=", "5">>

\* "https://youtu.be/xyz9"
UrlShort == <<"h", "t", "t", "p", "s", ":", "/", "/">> \o S_youtu_be
            \o <<"x", "y", "z", "9">>

\* "not a video"
UrlInvalid == <<"n", "o", "t", " ", "a", " ", "v", "i", "d", "e", "o">>

Urls == {UrlWatch, UrlShort, UrlInvalid}

\* the credential fields: left empty, blank, filled in
Keys == {<<>>, <<" ">>, <<"k", "e", "y">>}

\* the corpora nltk may fail to load
NltkCorpora == {"english", "french", "wordnet"}

\* how many attempts of a model load raise before one succeeds
LoadFailures == 0..MaxAttempts

\* the sentiment models considered
Weights == 0..1

\* contents of the LLM's chat completions for a reply
ReplyContents ==
    [empty |-> <<>>,
     blank |-> <<" ", " ">>,
     short |-> <<" ", "T", "h", "a", "n", "k", "s", "!", "\n">>,
     long |-> [i \in 1..40 |-> "x"]]

\* behaviours of the LLM provider over the comments of one run
LlmModes == {"down", "empty", "blank", "short", "long", "flaky"}

\* the chat completion for comment i under a behaviour
LlmReply(mode, i) ==
    IF mode = "down" \/ (mode = "flaky" /\ i % 2 = 1)
    THEN [raise |-> TRUE]
    ELSE [raise |-> FALSE,
          content |-> ReplyContents[IF mode = "flaky" THEN "long" ELSE mode]]

\* seeds of the random generator; draw i of a seed
Seeds == 0..1

Roll(seed, i) == seed + i

(***************************************************************************)
(* app.py: main, one action per stage of the analysis                      *)
(***************************************************************************)
\* main without the test on the fetched list
CheckFetchedSkipped ==
    /\ pc = "fetched"
    /\ pc' = "preprocess"
    /\ request' = NoRequest
    /\ pages' = 0
    /\ UNCHANGED <<inputs, extracted_id, later, unit, comments, calls, faults, errors>>

\* the test on the fetched list; the locals of the fetcher are gone
CheckFetched ==
    /\ pc = "fetched"
    /\ IF Len(comments) = 0
       THEN /\ errors' = errors + 1
            /\ pc' = "halt"
       ELSE /\ pc' = "preprocess"
            /\ UNCHANGED errors
    /\ request' = NoRequest
    /\ pages' = 0
    /\ UNCHANGED <<inputs, extracted_id, later, unit, comments, calls, faults>>

\* preprocess_comments, truncate_long_comments and the test on their result
Preprocess ==
    /\ pc = "preprocess"
    /\ \E nltk \in SUBSET NltkCorpora :
          processed_comments' =
              truncate_long_comments(
                  preprocess_comments(comments, apply_lemmatization, nltk),
                  TruncateLength)
    /\ calls' = calls \o <<"preprocess", "truncate">>
    /\ IF Len(processed_comments') = 0
       THEN /\ errors' = errors + 1
            /\ pc' = "halt"
       ELSE /\ pc' = "analyze"
            /\ UNCHANGED errors
    /\ UNCHANGED <<inputs, extracted_id, unit, comments, request, pages, analyzed_comments,
                   summary, comments_with_responses, analysis_results,
                   model_cache, loads, raised, batches, faults>>

\* load_sentiment_model without its cache
CachedLoadAlways(cache, failures) == load_sentiment_model(failures)

\* the handle st.cache_resource gives: the cached one, or a fresh load
CachedLoad(cache, failures) ==
    IF cache = "unset" THEN load_sentiment_model(failures)
    ELSE [model |-> cache, errors |-> 0, sleeps |-> <<>>, attempts |-> 0]

\* analyze_sentiment
Analyze ==
    /\ pc = "analyze"
    /\ \E failures \in LoadFailures, weights \in Weights,
          failing \in SUBSET (1..NumBatches(Len(processed_comments))) :
          LET loaded == IF Len(processed_comments) = 0
                        THEN [model |-> model_cache, errors |-> 0, attempts |-> 0]
                        ELSE CachedLoad(model_cache, failures)
              r == analyze_sentiment(processed_comments, loaded.model, weights, failing)
          IN  /\ model_cache' = loaded.model
              /\ loads' = IF loaded.attempts = 0 THEN loads
                          ELSE Append(loads, [failures |-> failures,
                                              model |-> loaded.model,
                                              attempts |-> loaded.attempts,
                                              sleeps |-> loaded.sleeps])
              /\ analyzed_comments' = r.value
              /\ batches' = r.batches
              /\ errors' = errors + loaded.errors + r.errors
              /\ faults' = faults
                     \cup (IF loaded.errors > 0 THEN {"model_load"} ELSE {})
                     \cup (IF \E b \in 1..Len(r.batches) : r.batches[b].failed
                           THEN {"batch"} ELSE {})
    /\ calls' = Append(calls, "classify")
    /\ pc' = "summarize"
    /\ UNCHANGED <<inputs, extracted_id, unit, comments, request, pages, processed_comments,
                   summary, comments_with_responses, analysis_results, raised>>

\* an exception that reaches main: its handler shows one error and returns
Crash(stage) ==
    /\ raised' = raised \cup {stage}
    /\ errors' = errors + 1
    /\ pc' = "halt"

\* generate_summary
Summarize ==
    /\ pc = "summarize"
    /\ \E llm \in {"raise", "empty", "text"} :
          LET r == generate_summary(analyzed_comments, groq_api_key, llm)
          IN  /\ calls' = calls \o <<"summarize">>
                           \o (IF r.called THEN <<"llm_summary">> ELSE <<>>)
              /\ faults' = faults \cup
                     (IF r.called /\ llm = "raise" THEN {"llm_summary"}
                      ELSE IF r.called /\ llm = "empty" THEN {"llm_summary_empty"}
                      ELSE {})
              /\ IF r.exc
                 THEN /\ Crash("generate_summary")
                      /\ UNCHANGED summary
                 ELSE /\ summary' = r.value
                      /\ pc' = "respond"
                      /\ UNCHANGED <<raised, errors>>
    /\ UNCHANGED <<inputs, extracted_id, unit, comments, request, pages, processed_comments,
                   analyzed_comments, comments_with_responses,
                   analysis_results, model_cache, loads, batches>>

\* generate_comment_responses; the records of analyzed_comments are updated in
\* place, and so are those of processed_comments when analyze_sentiment
\* returned the list it was given
Respond ==
    /\ pc = "respond"
    /\ \E mode \in (IF Len(groq_api_key) > 0 THEN LlmModes ELSE {"down"}),
          seed \in Seeds :
          LET n == Len(analyzed_comments)
              r == generate_comment_responses(analyzed_comments, groq_api_key,
                       [i \in 1..n |-> LlmReply(mode, i)],
                       [i \in 1..n |-> Roll(seed, i)])
          IN  /\ faults' = faults \cup (IF r.failed THEN {"llm_response"} ELSE {})
              /\ IF r.exc
                 THEN /\ Crash("generate_comment_responses")
                      /\ UNCHANGED <<comments_with_responses, analyzed_comments,
                                     processed_comments>>
                 ELSE /\ comments_with_responses' = r.value
                      /\ analyzed_comments' =
                             IF r.same_list THEN r.value ELSE analyzed_comments
                      /\ processed_comments' =
                             IF r.same_list /\ model_cache = None
                             THEN r.value ELSE processed_comments
                      /\ pc' = "store"
                      /\ UNCHANGED <<raised, errors>>
    /\ calls' = Append(calls, "respond")
    /\ UNCHANGED <<inputs, extracted_id, unit, comments, request, pages, summary,
                   analysis_results, model_cache, loads, batches>>

\* the report is stored in the session state
Store ==
    /\ pc = "store"
    /\ analysis_results' =
           [comments |-> comments_with_responses,
            summary |-> summary,
            stats |-> get_sentiment_summary(comments_with_responses),
            response_stats |-> get_response_summary(comments_with_responses)]
    /\ pc' = "done"
    /\ UNCHANGED <<inputs, extracted_id, unit, comments, request, pages, processed_comments,
                   analyzed_comments, summary, comments_with_responses,
                   model_cache, loads, errors, calls, raised, batches, faults>>

\* one prediction through the label mapping and the tag rule
Label ==
    /\ pc = "label"
    /\ labelled' = classify_prediction(prediction)
    /\ pc' = "labelled"
    /\ UNCHANGED <<inputs, extracted_id, later, comments, request, pages, errors, calls,
                   faults, prediction>>

\* preprocess_comments alone
PreprocessOnly ==
    /\ pc = "normalize"
    /\ \E nltk \in SUBSET NltkCorpora :
          processed_comments' = preprocess_comments(comments, apply_lemmatization, nltk)
    /\ pc' = "normalized"
    /\ UNCHANGED <<inputs, extracted_id, unit, comments, request, pages, analyzed_comments,
                   summary, comments_with_responses, analysis_results,
                   model_cache, loads, errors, calls, raised, batches, faults>>

(***************************************************************************)
(* Initial states                                                          *)
(***************************************************************************)
\* nothing entered yet
NoInputs ==
    /\ video_url = <<>>
    /\ youtube_api_key = <<>>
    /\ groq_api_key = <<>>
    /\ max_comments = 1
    /\ apply_lemmatization = TRUE

\* the fetcher has not run
NotFetched ==
    /\ extracted_id = <<>>
    /\ comments = <<>>
    /\ request = NoRequest
    /\ pages = 0

\* a fresh session: no stage has run, nothing is cached, nothing is shown
Fresh ==
    /\ analyzed_comments = <<>>
    /\ summary = NoneValue
    /\ comments_with_responses = <<>>
    /\ analysis_results = NoneValue
    /\ model_cache = "unset"
    /\ loads = <<>>
    /\ errors = 0
    /\ calls = <<>>
    /\ raised = {}
    /\ batches = <<>>
    /\ faults = {}

NoPrediction ==
    /\ prediction = NoneValue
    /\ labelled = NoneValue

\* the Analyze button is pressed in a fresh session
Init ==
    /\ pc = "fetch"
    /\ video_url \in Urls
    /\ youtube_api_key \in Keys \ {<<" ">>}
    /\ groq_api_key \in Keys
    /\ max_comments \in 1..MaxCount
    /\ apply_lemmatization \in BOOLEAN
    /\ NotFetched
    /\ processed_comments = <<>>
    /\ Fresh
    /\ NoPrediction

Next ==
    \/ FetchBegin
    \/ ApiPage
    \/ Scrape
    \/ CheckFetched
    \/ Preprocess
    \/ Analyze
    \/ Summarize
    \/ Respond
    \/ Store

Spec == Init /\ [][Next]_vars

\* max_results around the page size limit as well
FetchCounts == (1..MaxCount) \cup {PageSizeLimit + d : d \in 0..MaxCount}

\* a call of fetch_comments
InitFetch ==
    /\ pc = "fetch"
    /\ video_url \in Urls
    /\ youtube_api_key \in Keys
    /\ groq_api_key = <<>>
    /\ max_comments \in FetchCounts
    /\ apply_lemmatization = TRUE
    /\ NotFetched
    /\ processed_comments = <<>>
    /\ Fresh
    /\ NoPrediction

NextFetch ==
    \/ FetchBegin
    \/ ApiPage
    \/ Scrape

SpecFetch == InitFetch /\ [][NextFetch]_vars

\* a raw record as the fetcher builds it; `likes` tells the records apart
RawRecord(text_no, i) ==
    [text |-> RawTexts[text_no],
     author |-> Authors[(i % Len(Authors)) + 1],
     likes |-> i,
     published |-> "2024-01-01T00:00:00Z"]

\* the lists of raw records handed to preprocess_comments
RawLists ==
    UNION {{[i \in 1..n |-> RawRecord(pick[i], i)] :
               pick \in [1..n -> 1..Len(RawTexts)]} : n \in 0..MaxRecords}

\* a call of preprocess_comments
InitNormalize ==
    /\ pc = "normalize"
    /\ video_url = <<>>
    /\ youtube_api_key = <<>>
    /\ groq_api_key = <<>>
    /\ max_comments = 1
    /\ apply_lemmatization \in BOOLEAN
    /\ extracted_id = <<>>
    /\ comments \in RawLists
    /\ request = NoRequest
    /\ pages = 0
    /\ processed_comments = <<>>
    /\ Fresh
    /\ NoPrediction

NextNormalize == PreprocessOnly

SpecNormalize == InitNormalize /\ [][NextNormalize]_vars

LongText == [i \in 1..(MaxTextLen + 8) |-> IF i % 9 = 0 THEN " " ELSE "a"]

S_nice == <<"N", "i", "c", "e", " ", "o", "n", "e">>

\* the shapes of comment analyze_sentiment may be given
CommentShapes ==
    << [original_text |-> S_nice, processed_text |-> Lower(S_nice)],
       [original_text |-> S_nice, processed_text |-> <<>>],
       [original_text |-> S_nice],
       [author |-> Authors[1]],
       [original_text |-> S_nice, processed_text |-> <<" ", " ">>],
       [original_text |-> S_nice, processed_text |-> LongText],
       [original_text |-> <<>>, processed_text |-> <<"b", "a", "d", "!", "!">>] >>

\* a list of n comments; `likes` tells the records apart
ShapedList(n, shift) ==
    [i \in 1..n |-> Put(CommentShapes[((i + shift) % Len(CommentShapes)) + 1],
                        "likes", i)]

\* list lengths around the batch size
BatchedSizes == {b * BatchSize + d : b \in 0..MaxFullBatches, d \in 0..MaxExtra}

\* a call of analyze_sentiment
InitClassify ==
    /\ pc = "analyze"
    /\ NoInputs
    /\ NotFetched
    /\ processed_comments \in
           {ShapedList(n, shift) : n \in BatchedSizes, shift \in 1..Len(CommentShapes)}
    /\ Fresh
    /\ NoPrediction

NextClassify == Analyze

SpecClassify == InitClassify /\ [][NextClassify]_vars

\* one prediction of the sentiment model
InitLabel ==
    /\ pc = "label"
    /\ NoInputs
    /\ NotFetched
    /\ processed_comments = <<>>
    /\ Fresh
    /\ prediction \in [label : {RawLabels[k] : k \in 1..Len(RawLabels)},
                       score : 0..ScoreScale]
    /\ labelled = NoneValue

NextLabel == Label

SpecLabel == InitLabel /\ [][NextLabel]_vars

(***************************************************************************)
(* Properties of fetch_comments (SpecFetch)                                *)
(***************************************************************************)
\* C1: whatever the limit N >= 1, with or without a credential, and with
\* provider pages no larger than requested, the list held during pagination
\* and the list fetch_comments returns never have more than N records.
C1_AtMostMaxComments ==
    /\ max_comments >= 1
    /\ Len(comments) <= max_comments

\* the limit lies above the page size and is reached exactly on a later page
C1_LimitReachedOnLaterPage ==
    /\ pc = "fetched"
    /\ max_comments > PageSizeLimit
    /\ pages >= 2
    /\ \E i \in 1..Len(calls) : calls[i] = "api_records"
    /\ Len(comments) = max_comments

\* C2 as stated: the API is called only with a non-blank credential and before
\* the scraper; the scraper is called exactly when the credential is absent or
\* blank or the API path returned nothing; records from the API path are the
\* result, in provider order, and then the scraper is never called.
C2_ProviderOrderAsStated ==
    LET api == {i \in 1..Len(calls) : calls[i] = "api"}
        scraper == {i \in 1..Len(calls) : calls[i] = "scraper"}
        api_empty == \E i \in 1..Len(calls) : calls[i] = "api_empty"
        api_records == \E i \in 1..Len(calls) : calls[i] = "api_records"
        non_blank == \E i \in 1..Len(youtube_api_key) :
                         youtube_api_key[i] \notin {" ", "\t", "\n"}
        video_id == extract_video_id(video_url)
    IN  /\ api # {} => non_blank
        /\ \A i \in api, j \in scraper : i < j
        /\ Cardinality(api) <= 1 /\ Cardinality(scraper) <= 1
        /\ pc = "fetched" =>
              /\ scraper # {} <=> (~non_blank \/ api_empty)
              /\ api_records =>
                    /\ scraper = {}
                    /\ Len(comments) >= 1
                    /\ \A i \in 1..Len(comments) :
                          comments[i] = ApiRecord(ApiSnippet(video_id, i))

\* C2, for a reference from which an identifier is extracted: as stated.  For
\* a reference without identifier no provider is called and the result is
\* empty.
C2_ProviderOrder ==
    IF extract_video_id(video_url) = <<>>
    THEN calls = <<>> /\ comments = <<>>
    ELSE C2_ProviderOrderAsStated

\* the API path returned nothing under a real credential, the scraper
\* delivered
C2_FallbackToScraper ==
    /\ pc = "fetched"
    /\ calls = <<"api", "api_empty", "scraper">>
    /\ Len(comments) >= 1

(***************************************************************************)
(* Properties of a run of main (Spec)                                      *)
(***************************************************************************)
\* C3: no failure of a provider reaches main as an exception.  fetch_comments,
\* analyze_sentiment, generate_summary and generate_comment_responses each
\* return a value: the fetcher a list (empty when its last provider failed),
\* the analyzer one record per record given, the summarizer a text, the
\* responder one record per record given.
C3_NoFailurePropagates ==
    /\ raised = {}
    /\ (pc \in {"fetched", "halt"} /\ "scraper" \in faults) => comments = <<>>
    /\ pc \in {"summarize", "respond"} =>
          Len(analyzed_comments) = Len(processed_comments)
    /\ pc \in {"respond", "store", "done"} => summary.kind = "str"
    /\ pc \in {"store", "done"} =>
          /\ Len(comments_with_responses) = Len(analyzed_comments)
          /\ \A i \in 1..Len(comments_with_responses) :
                "response" \in DOMAIN comments_with_responses[i]

\* a run in which the API, the model load or a batch, and both LLM calls
\* failed, and which still stored its report
C3_RunSurvivesFailures ==
    /\ pc = "done"
    /\ {"api", "batch", "llm_summary", "llm_response"} \subseteq faults
    /\ analysis_results # NoneValue

\* C4: when fetch_comments returns an empty list the run ends in the
\* no-comments condition: no later stage is invoked and no report is stored.
C4_EmptyFetchIsTerminal ==
    (pc \notin {"fetch", "api", "scraper"} /\ Len(comments) = 0) =>
        /\ pc \in {"fetched", "halt"}
        /\ pc = "halt" => errors >= 1
        /\ \A i \in 1..Len(calls) : calls[i] \in {"api", "api_empty", "scraper"}
        /\ processed_comments = <<>>
        /\ analyzed_comments = <<>>
        /\ comments_with_responses = <<>>
        /\ summary = NoneValue
        /\ analysis_results = NoneValue

\* both providers were tried and yielded nothing, and the run has halted
C4_BothProvidersEmpty ==
    /\ pc = "halt"
    /\ Len(comments) = 0
    /\ calls = <<"api", "api_empty", "scraper">>

\* C5: a run ends either with the full report stored (records, summary,
\* statistics, response statistics), or halted with exactly one error message
\* and no report; no run ends otherwise.
C5_OneErrorOrReport ==
    /\ pc = "done" =>
          /\ analysis_results # NoneValue
          /\ DOMAIN analysis_results = {"comments", "summary", "stats", "response_stats"}
    /\ pc = "halt" =>
          /\ analysis_results = NoneValue
          /\ errors = 1

\* C6: when the sentiment model cannot be loaded the run is terminal: the
\* summarizer and the responder are not invoked and no report is stored.
C6_ModelUnavailableIsTerminal ==
    model_cache = None =>
        /\ \A i \in 1..Len(calls) : calls[i] \notin {"summarize", "respond"}
        /\ analysis_results = NoneValue

RECURSIVE SentUpTo(_)
SentUpTo(b) == IF b = 0 THEN 0 ELSE SentUpTo(b - 1) + Len(batches[b].texts)

\* C8: with a loaded model analyze_sentiment returns the records it was given,
\* as many and in the same order, each with sentiment, confidence and scores
\* added.  The texts go to the model in batches of at most 32 and every text is
\* sent, whichever batches failed; each text of a failed batch gets the default
\* (positive, 0.5, 0.5/0.5), each other text the result of its prediction.
C8_BatchesAndDefaults ==
    (pc = "summarize" /\ model_cache = "pipeline") =>
        LET n == Len(processed_comments)
            out == analyzed_comments
        IN  /\ Len(out) = n
            /\ \A i \in 1..n :
                  /\ {"sentiment", "confidence", "scores"} \subseteq DOMAIN out[i]
                  /\ \A f \in DOMAIN processed_comments[i] :
                        out[i][f] = processed_comments[i][f]
            /\ \A b \in 1..Len(batches) : Len(batches[b].texts) \in 1..32
            /\ SentUpTo(Len(batches)) = n
            /\ \E weights \in Weights :
                  \A b \in 1..Len(batches) :
                     \A k \in 1..Len(batches[b].texts) :
                        LET i == SentUpTo(b - 1) + k
                            got == [sentiment |-> out[i].sentiment,
                                    confidence |-> out[i].confidence,
                                    scores |-> out[i].scores]
                        IN  IF batches[b].failed
                            THEN got = [sentiment |-> "positive",
                                        confidence |-> ScoreScale \div 2,
                                        scores |-> [positive |-> ScoreScale \div 2,
                                                    negative |-> ScoreScale \div 2]]
                            ELSE got = classify_prediction(
                                           Predict(weights, batches[b].texts[k]))

\* three batches of which the second failed and the third was still processed
C8_MiddleBatchFailed ==
    /\ pc = "summarize"
    /\ model_cache = "pipeline"
    /\ Len(batches) = 3
    /\ ~batches[1].failed
    /\ batches[2].failed
    /\ ~batches[3].failed
    /\ Len(batches[1].texts) = 32
    /\ analyzed_comments[33].confidence = ScoreScale \div 2

\* C10: the text sent to the model for a comment is its processed_text if that
\* is non-empty, else its original_text if that is non-empty, else the
\* placeholder "okay comment"; it is never empty and never longer than 512
\* characters (a longer text is cut to its first 512).  Non-empty is read as
\* the code tests it: holding a character that is not white space.
C10_TextSent ==
    (pc = "summarize" /\ model_cache = "pipeline") =>
        \A b \in 1..Len(batches) :
           \A k \in 1..Len(batches[b].texts) :
              LET comment == processed_comments[SentUpTo(b - 1) + k]
                  sent == batches[b].texts[k]
                  processed_text == IF "processed_text" \in DOMAIN comment
                                    THEN comment.processed_text ELSE <<>>
                  original_text == IF "original_text" \in DOMAIN comment
                                   THEN comment.original_text ELSE <<>>
                  filled(t) == \E j \in 1..Len(t) : t[j] \notin {" ", "\t", "\n"}
                  chosen == IF filled(processed_text) THEN processed_text
                            ELSE IF filled(original_text) THEN original_text
                            ELSE <<"o", "k", "a", "y", " ", "c", "o", "m", "m", "e", "n", "t">>
              IN  /\ sent = SubSeq(chosen, 1, IF Len(chosen) > 512 THEN 512 ELSE Len(chosen))
                  /\ Len(sent) \in 1..512

(***************************************************************************)
(* Properties of the label mapping (SpecLabel)                             *)
(***************************************************************************)
\* C9: a prediction (label, s) gives the scores {positive: s, negative: 1 - s}
\* for POSITIVE, {positive: 1 - s, negative: s} for NEGATIVE and
\* {positive: 0.6, negative: 0.4} for any other label; the two scores sum to 1;
\* the tag is positive exactly when positive > negative and negative otherwise,
\* so a prediction with s = 0.5 is tagged negative under either label.
C9_LabelMapping ==
    pc = "labelled" =>
        LET s == prediction.score
            positive == labelled.scores.positive
            negative == labelled.scores.negative
        IN  /\ prediction.label = "POSITIVE" =>
                  positive = s /\ negative = ScoreScale - s
            /\ prediction.label = "NEGATIVE" =>
                  positive = ScoreScale - s /\ negative = s
            /\ prediction.label \notin {"POSITIVE", "NEGATIVE"} =>
                  10 * positive = 6 * ScoreScale /\ 10 * negative = 4 * ScoreScale
            /\ positive + negative = ScoreScale
            /\ labelled.sentiment \in {"positive", "negative"}
            /\ labelled.sentiment = "positive" <=> positive > negative
            /\ (prediction.label \in {"POSITIVE", "NEGATIVE"} /\ 2 * s = ScoreScale) =>
                  labelled.sentiment = "negative"

\* a POSITIVE prediction of score 0.5 has been tagged negative
C9_TieTaggedNegative ==
    /\ pc = "labelled"
    /\ prediction.label = "POSITIVE"
    /\ 2 * prediction.score = ScoreScale
    /\ labelled.sentiment = "negative"

(***************************************************************************)
(* Properties of the summarizer and the responder in a run (Spec)          *)
(***************************************************************************)
\* C11: for a non-empty list of comments and a supplied (non-blank) credential
\* generate_summary returns a text that is neither None nor empty and that is
\* either the non-empty text of the LLM or the text summarize_locally returns
\* for the same comments; it is the latter when the LLM call raised or
\* returned an empty text.
C11_SummaryFallback ==
    (/\ pc = "respond"
     /\ Len(analyzed_comments) > 0
     /\ \E i \in 1..Len(groq_api_key) : groq_api_key[i] \notin {" ", "\t", "\n"}) =>
        /\ summary.kind = "str"
        /\ ~summary.empty
        /\ summary.source = "llm" \/ summary = summarize_locally(analyzed_comments)
        /\ (faults \cap {"llm_summary", "llm_summary_empty"} # {}) =>
               summary = summarize_locally(analyzed_comments)

\* C12: with or without a credential and whatever each LLM call does (raise,
\* return an empty or blank text, return a text), generate_comment_responses
\* returns the comments it was given, as many and in the same order, each with
\* a response that is a non-empty string.
C12_EveryResponseNonEmpty ==
    pc \in {"store", "done"} =>
        /\ Len(comments_with_responses) = Len(processed_comments)
        /\ \A i \in 1..Len(comments_with_responses) :
              /\ \A f \in DOMAIN processed_comments[i] \ {"response"} :
                    comments_with_responses[i][f] = processed_comments[i][f]
              /\ "response" \in DOMAIN comments_with_responses[i]
              /\ comments_with_responses[i].response.kind = "str"
              /\ ~comments_with_responses[i].response.empty

(***************************************************************************)
(* A call of generate_comment_responses (SpecRespond)                      *)
(***************************************************************************)
\* texts with a praise and a mild-praise cue, a mild-praise cue only, no cue,
\* a criticism and a clarity cue, a clarity cue only, a praise cue in capitals
CuedTexts ==
    << <<"T", "h", "a", "n", "k", "s", ",", " ", "n", "i", "c", "e", " ", "o", "n", "e">>,
       S_nice,
       <<"t", "h", "e", " ", "c", "a", "t">>,
       <<"B", "a", "d", " ", "a", "n", "d", " ", "u", "n", "c", "l", "e", "a", "r">>,
       <<"t", "o", "o", " ", "h", "a", "r", "d">>,
       <<"G", "R", "E", "A", "T">> >>

\* the analyzed comments handed to the responder: every text under every
\* sentiment tag, and without tag as analyze_sentiment leaves a comment when
\* the model is unavailable; with an author and without
AnalyzedShapes ==
    {[original_text |-> CuedTexts[k], sentiment |-> s, author |-> Authors[2]] :
        k \in 1..Len(CuedTexts), s \in {"positive", "negative", "neutral"}}
    \cup {[original_text |-> CuedTexts[k], sentiment |-> s] :
        k \in 1..Len(CuedTexts), s \in {"positive", "negative"}}
    \cup {[original_text |-> CuedTexts[k], author |-> Authors[1]] :
        k \in 1..Len(CuedTexts)}

\* a list of n analyzed comments that starts with `first`
AnalyzedList(first, n) ==
    [i \in 1..n |-> Put(IF i = 1 THEN first
                        ELSE [original_text |-> CuedTexts[((i + Len(first.original_text))
                                                           % Len(CuedTexts)) + 1],
                              sentiment |-> IF i % 2 = 0 THEN "negative" ELSE "positive",
                              author |-> Authors[3]],
                    "likes", i)]

\* a call of generate_comment_responses on the list analyze_sentiment returned
InitRespond ==
    /\ pc = "respond"
    /\ video_url = <<>>
    /\ youtube_api_key = <<>>
    /\ groq_api_key \in Keys
    /\ max_comments = 1
    /\ apply_lemmatization = TRUE
    /\ NotFetched
    /\ processed_comments = <<>>
    /\ analyzed_comments \in
           {AnalyzedList(first, n) : first \in AnalyzedShapes, n \in 1..MaxRecords}
    /\ summary = NoneValue
    /\ comments_with_responses = <<>>
    /\ analysis_results = NoneValue
    /\ model_cache = "pipeline"
    /\ loads = <<>>
    /\ errors = 0
    /\ calls = <<>>
    /\ raised = {}
    /\ batches = <<>>
    /\ faults = {}
    /\ NoPrediction

NextRespond == Respond

SpecRespond == InitRespond /\ [][NextRespond]_vars

\* C13: a response of the template fallback is one of the templates of a
\* single bucket with the comment's author put in, and the bucket follows from
\* the sentiment and the cues found in the lowercased original_text, the first
\* test that matches deciding: positive with a praise cue -> appreciation (a
\* mild-praise cue may be there too), positive with a mild-praise cue only ->
\* secondary appreciation, positive without cue -> generic thanks; negative
\* with a criticism cue -> apologetic, negative with a clarity cue only ->
\* clarification, negative without cue -> generic acknowledgment.
C13_TemplateBucket ==
    pc = "store" =>
        \A i \in 1..Len(comments_with_responses) :
            LET comment == comments_with_responses[i]
                response == comment.response
                text == Lower(comment.original_text)
                has(cues) == \E w \in cues : \E k \in 1..Len(text) :
                                k + Len(w) - 1 <= Len(text)
                                /\ SubSeq(text, k, k + Len(w) - 1) = w
                sentiment == IF "sentiment" \in DOMAIN comment
                             THEN comment.sentiment ELSE "neutral"
                sizes == [appreciation |-> 4, secondary_appreciation |-> 3,
                          generic_thanks |-> 3, apologetic |-> 3,
                          clarification |-> 3, generic_acknowledgment |-> 3,
                          neutral |-> 4]
            IN  response.source = "template" =>
                    /\ response.bucket \in DOMAIN sizes
                    /\ response.choice \in 1..sizes[response.bucket]
                    /\ response.author = IF "author" \in DOMAIN comment
                                         THEN comment.author
                                         ELSE <<"t", "h", "e", "r", "e">>
                    /\ sentiment = "positive" =>
                          response.bucket =
                              IF has(PraiseCues) THEN "appreciation"
                              ELSE IF has(MildPraiseCues) THEN "secondary_appreciation"
                              ELSE "generic_thanks"
                    /\ sentiment = "negative" =>
                          response.bucket =
                              IF has(CriticismCues) THEN "apologetic"
                              ELSE IF has(ClarityCues) THEN "clarification"
                              ELSE "generic_acknowledgment"
                    /\ sentiment \notin {"positive", "negative"} =>
                          response.bucket = "neutral"

\* a positive comment with a praise and a mild-praise cue got a template of the
\* appreciation bucket, and a negative one with a criticism and a clarity cue
\* one of the apologetic bucket
C13_FirstCueWins ==
    /\ pc = "store"
    /\ \E i, j \in 1..Len(comments_with_responses) :
          LET praised == comments_with_responses[i]
              blamed == comments_with_responses[j]
          IN  /\ praised.original_text = CuedTexts[1]
              /\ "sentiment" \in DOMAIN praised
              /\ praised.sentiment = "positive"
              /\ praised.response.source = "template"
              /\ praised.response.bucket = "appreciation"
              /\ blamed.original_text = CuedTexts[4]
              /\ "sentiment" \in DOMAIN blamed
              /\ blamed.sentiment = "negative"
              /\ blamed.response.source = "template"
              /\ blamed.response.bucket = "apologetic"

\* C14: the response counts of the report are split by the provider of each
\* response: ai_responses is the number of responses the LLM produced and
\* template_responses the number the template fallback produced; in a run of N
\* comments without LLM credential ai_responses = 0 and template_responses = N.
C14_CountsByProvider ==
    pc = "done" =>
        LET cs == analysis_results.comments
            stats == analysis_results.response_stats
            by(source) == Cardinality({i \in 1..Len(cs) : cs[i].response.source = source})
        IN  /\ stats.ai_responses = by("llm")
            /\ stats.template_responses = by("template")
            /\ Len(groq_api_key) = 0 =>
                  stats.ai_responses = 0 /\ stats.template_responses = Len(cs)

\* C15: every stage leaves the records of the list it was given unchanged and
\* returns new copies: the fetched records never get the fields that
\* preprocess_comments adds, the preprocessed records never get those that
\* analyze_sentiment or generate_comment_responses add, and the records
\* returned by analyze_sentiment have no response field after
\* generate_comment_responses.
C15_StagesCopy ==
    /\ \A i \in 1..Len(comments) :
          DOMAIN comments[i] \subseteq {"text", "author", "likes", "published"}
    /\ \A i \in 1..Len(processed_comments) :
          DOMAIN processed_comments[i]
              \cap {"sentiment", "confidence", "scores", "response"} = {}
    /\ \A i \in 1..Len(analyzed_comments) :
          "response" \notin DOMAIN analyzed_comments[i]

(***************************************************************************)
(* Calls of analyze_sentiment in one process (SpecLoad)                    *)
(***************************************************************************)
\* the Analyze button is pressed again in the same process: the run-local
\* values are new, the resource cache is kept
Rerun ==
    /\ pc = "summarize"
    /\ Cardinality({i \in 1..Len(calls) : calls[i] = "classify"}) < MaxRuns
    /\ pc' = "analyze"
    /\ analyzed_comments' = <<>>
    /\ batches' = <<>>
    /\ errors' = 0
    /\ faults' = {}
    /\ calls' = Append(calls, "rerun")
    /\ UNCHANGED <<inputs, extracted_id, unit, comments, request, pages, processed_comments,
                   summary, comments_with_responses, analysis_results,
                   model_cache, loads, raised>>

InitLoad ==
    /\ pc = "analyze"
    /\ NoInputs
    /\ NotFetched
    /\ processed_comments \in
           {ShapedList(n, shift) : n \in 1..MaxRecords, shift \in 1..Len(CommentShapes)}
    /\ Fresh
    /\ NoPrediction

NextLoad ==
    \/ Analyze
    \/ Rerun

SpecLoad == InitLoad /\ [][NextLoad]_vars

\* C16: over the runs of one process the model is loaded successfully at most
\* once, and no load follows a successful one (later runs get the cached
\* handle).  One load makes at most 3 attempts and stops at the first that
\* succeeds; it waits 1 second after the first failed attempt and 2 seconds
\* after the second; it gives no model only after a third failed attempt, and
\* does not wait after that one.
C16_LoadOnceWithBackoff ==
    /\ Cardinality({k \in 1..Len(loads) : loads[k].model # "None"}) <= 1
    /\ \A k \in 1..Len(loads) : loads[k].model # "None" => k = Len(loads)
    /\ (model_cache \notin {"unset", "None"}) =>
           Len(loads) >= 1 /\ loads[Len(loads)].model = model_cache
    /\ \A k \in 1..Len(loads) :
          LET load == loads[k]
          IN  /\ load.attempts \in 1..3
              /\ load.attempts = IF load.failures < 3 THEN load.failures + 1 ELSE 3
              /\ load.model = "None" <=> load.failures >= 3
              /\ load.sleeps = SubSeq(<<1, 2>>, 1, load.attempts - 1)

\* the model was loaded at the third attempt in the first run, after waits of
\* 1 and 2 seconds, and a second run has used it without a load
C16_SecondRunReuses ==
    /\ pc = "summarize"
    /\ calls = <<"classify", "rerun", "classify">>
    /\ Len(loads) = 1
    /\ loads[1].attempts = 3
    /\ loads[1].sleeps = <<1, 2>>
    /\ model_cache = "pipeline"
    /\ Len(batches) = 1

(***************************************************************************)
(* fetch_comments up to the choice of the provider (SpecExtract)           *)
(***************************************************************************)
\* the characters an identifier is built from here
IdAlphabet == {"a", "Z", "9"}

\* the identifiers of at most MaxIdLen characters, the empty one included
IdStrings == UNION {[1..n -> IdAlphabet] : n \in 0..MaxIdLen}

UrlHeads ==
    {<<>>, <<"h", "t", "t", "p", "s", ":", "/", "/", "w", "w", "w", ".">>}

\* the three link forms, a watch link with another parameter first, a watch
\* link of another site, a watch link without v=
UrlForms ==
    {S_watch_v, S_youtu_be, S_embed,
     S_watch_q \o <<"t", "=", "5", "&">> \o S_v_eq,
     <<"v", "i", "m", "e", "o", ".", "c", "o", "m", "/", "w", "a", "t", "c", "h", "?">>
         \o S_v_eq,
     S_watch_q}

\* what follows the identifier: nothing, each delimiter, a second v=, a
\* second link
UrlTails ==
    {<<>>,
     <<"&", "t", "=", "5">>,
     <<"?", "x">>,
     <<"#", "f">>,
     <<"\n", "z">>,
     <<"&", "v", "=", "q">>,
     <<"?", "u", "=">> \o S_youtu_be \o <<"k">>}

\* the video references considered
ReferenceStrings ==
    Urls \cup {head \o form \o id \o tail :
                 head \in UrlHeads, form \in UrlForms,
                 id \in IdStrings, tail \in UrlTails}

InitExtract ==
    /\ pc = "fetch"
    /\ video_url \in ReferenceStrings
    /\ youtube_api_key \in {<<>>, <<"k", "e", "y">>}
    /\ groq_api_key = <<>>
    /\ max_comments = 1
    /\ apply_lemmatization = TRUE
    /\ NotFetched
    /\ processed_comments = <<>>
    /\ Fresh
    /\ NoPrediction

NextExtract == FetchBegin

SpecExtract == InitExtract /\ [][NextExtract]_vars

\* C17: extract_video_id returns the identifier of the first link form that
\* matches: the non-empty run of characters after the form (watch?v=,
\* youtu.be/, embed/; failing those, watch? with v= later on the line) up to
\* but excluding the first of '&', newline, '?', '#'; the reference
\* "https://www.youtube.com/watch?v=ABC123&t=5" gives "ABC123".  When no form
\* matches there is no identifier and fetch_comments calls no provider.
C17_ExtractVideoId ==
    pc # "fetch" =>
        LET url == video_url
            delimiters == {"&", "\n", "?", "#"}
            at(i, s) == /\ i >= 1
                        /\ i + Len(s) - 1 <= Len(url)
                        /\ SubSeq(url, i, i + Len(s) - 1) = s
            idchar(k) == k \in 1..Len(url) /\ url[k] \notin delimiters
            \* where an identifier starts right after one of the three forms
            direct == {k \in 1..Len(url) :
                         /\ idchar(k)
                         /\ \E s \in {S_watch_v, S_youtu_be, S_embed} : at(k - Len(s), s)}
            \* where one starts after v=, with watch? before it on the line
            spaced == {k \in 1..Len(url) :
                         /\ idchar(k)
                         /\ at(k - 2, <<"v", "=">>)
                         /\ \E i \in 1..k :
                               /\ at(i, S_watch_q)
                               /\ i + Len(S_watch_q) <= k - 2
                               /\ \A j \in (i + Len(S_watch_q))..(k - 3) : url[j] # "\n"}
            run(k) == SubSeq(url, k,
                             CHOOSE e \in k..Len(url) :
                                 /\ \A j \in k..e : url[j] \notin delimiters
                                 /\ e = Len(url) \/ url[e + 1] \in delimiters)
        IN  /\ direct # {} =>
                  extracted_id = run(CHOOSE k \in direct : \A k2 \in direct : k <= k2)
            /\ (direct = {} /\ spaced # {}) =>
                  \E k \in spaced : extracted_id = run(k)
            /\ (direct \cup spaced # {}) =>
                  Len(extracted_id) >= 1 /\ pc \in {"api", "scraper"}
            /\ (direct \cup spaced = {}) =>
                  /\ extracted_id = <<>>
                  /\ pc = "fetched"
                  /\ calls = <<>>
                  /\ comments = <<>>
            /\ url = UrlWatch => extracted_id = <<"A", "B", "C", "1", "2", "3">>

\* the identifier ABC123 was taken from the watch link that goes on with &t=5
C17_WatchLinkExample ==
    /\ pc \in {"api", "scraper"}
    /\ video_url = UrlWatch
    /\ extracted_id = <<"A", "B", "C", "1", "2", "3">>

\* C18: every comment that analyze_sentiment returns with scores has a tag
\* that agrees with them: positive exactly when scores.positive >
\* scores.negative, and negative otherwise; so for the comments of successful
\* batches, of failed batches and for those with a missing result.
C18_TagAgreesWithScores ==
    pc = "summarize" =>
        \A i \in 1..Len(analyzed_comments) :
            "scores" \in DOMAIN analyzed_comments[i] =>
                /\ analyzed_comments[i].sentiment \in {"positive", "negative"}
                /\ analyzed_comments[i].sentiment = "positive" <=>
                       analyzed_comments[i].scores.positive
                           > analyzed_comments[i].scores.negative


\* ---------------------------------------------------------------------------
\* The fetch stage as a running program: a call that can take a step takes it.
\* fetch_comments and the loop of fetch_comments_api run in one thread without
\* waiting on anything but the provider's answer, which every request gets.
\* ---------------------------------------------------------------------------
SpecFetchFair ==
    /\ InitFetch
    /\ [][NextFetch]_vars
    /\ WF_vars(FetchBegin)
    /\ WF_vars(ApiPage)
    /\ WF_vars(Scrape)

\* C19: the pagination loop of fetch_comments_api terminates whatever the
\* provider answers: a run that has entered the loop leaves it after finitely
\* many page requests, also when every page carries a next-page token and no
\* items.
C19_PaginationTerminates == (pc = "api") ~> (pc # "api")

=============================================================================
